---------------------------- MODULE Spec2Model ----------------------------
(***************************************************************************)
(* audiort: capture of an audio device into a WAV file.                    *)
(*                                                                         *)
(* Two threads are modelled: the control thread, which runs one of the     *)
(* three clients of the library (main.rs `main`, cli.rs `cli_main`, or an  *)
(* arbitrary caller of the public API of lib.rs), and the backend's audio  *)
(* thread, which invokes the registered data callback once per buffer.     *)
(* They share one Arc<Mutex<Option<hound::WavWriter>>> (lib.rs:151).       *)
(***************************************************************************)
EXTENDS Integers, Sequences, FiniteSets, TLC

(***************************************************************************)
(* Bounds of the model.                                                    *)
(***************************************************************************)
\* longest buffer the backend hands to one callback invocation
MaxBuf == 2
\* number of callback invocations in one run
MaxCallbacks == 2
\* largest --delay value tried (seconds)
MaxDelay == 1
\* number of times an API client runs the take-and-finalize block
MaxStops == 2

\* Option<T>: None is the empty sequence, Some(x) the one-element sequence
None == <<>>

Some(x) == <<x>>

IsSome(o) == o # <<>>

Unwrap(o) == o[1]

(***************************************************************************)
(* cpal::SampleFormat and cpal::SupportedStreamConfig.  U16 stands for the *)
(* formats of cpal that write_wav does not dispatch on.                    *)
(***************************************************************************)
SupportedFormats == {"F32", "I32", "I16", "I8"}

SampleFormats == SupportedFormats \cup {"U16"}

\* cpal::SampleFormat::sample_size, in bytes
sample_size(fmt) ==
    CASE fmt = "I8" -> 1
      [] fmt \in {"I16", "U16"} -> 2
      [] fmt \in {"I32", "F32"} -> 4

\* cpal::SampleFormat::is_float
is_float(fmt) == fmt = "F32"

\* the configurations a device may report as its default, or a caller may
\* pass to use_config
Configs ==
    {[channels |-> 2, sample_rate |-> 44100, sample_format |-> f] :
        f \in SampleFormats \ {"I16"}}
    \cup {[channels |-> 1, sample_rate |-> 48000, sample_format |-> "I16"]}

\* the configurations a caller passes to use_config
OverrideConfigs ==
    {c \in Configs : c.sample_format \in {"F32", "I16"}}

\* a header that is always tagged Int
as_wav_spec_untagged(config) ==
    [channels        |-> config.channels,
     sample_rate     |-> config.sample_rate,
     bits_per_sample |-> sample_size(config.sample_format) * 8,
     sample_format   |-> "Int"]

\* impl WavExt for SupportedStreamConfig
as_wav_spec(config) ==
    [channels        |-> config.channels,
     sample_rate     |-> config.sample_rate,
     bits_per_sample |-> sample_size(config.sample_format) * 8,
     sample_format   |-> IF is_float(config.sample_format)
                         THEN "Float" ELSE "Int"]

(***************************************************************************)
(* Samples.  A sample is [kind, v]: an integer sample holds its value, an  *)
(* f32 sample holds its IEEE-754 bit pattern read as an i32.               *)
(***************************************************************************)
IntSample(n) == [kind |-> "Int", v |-> n]

\* an f32 given by its bit pattern
FloatSample(b) == [kind |-> "Float", v |-> b]

\* the two sample values of type ty the backend delivers
SamplesOf(ty) ==
    CASE ty = "F32" -> <<FloatSample(1065353216), FloatSample(-1090519040)>>
      [] ty = "I32" -> <<IntSample(-70000), IntSample(1)>>
      [] ty = "I16" -> <<IntSample(-2), IntSample(300)>>
      [] ty = "I8"  -> <<IntSample(-128), IntSample(5)>>
      [] OTHER      -> <<IntSample(7), IntSample(9)>>

\* the buffers of 1..MaxBuf samples of type ty: the two values in turn
BuffersOf(ty) ==
    {[k \in 1..n |-> SamplesOf(ty)[2 - (k % 2)]] : n \in 1..MaxBuf}

\* little-endian bytes of the two's complement integer v, w bytes wide
LeBytes(v, w) == [k \in 1..w |-> (v \div (256 ^ (k - 1))) % 256]

\* the signed integer held by little-endian bytes
RECURSIVE FromLeUnsigned(_)
FromLeUnsigned(bytes) ==
    IF bytes = <<>> THEN 0
    ELSE Head(bytes) + 256 * FromLeUnsigned(Tail(bytes))

FromLeSigned(bytes) ==
    LET n    == Len(bytes)
        top  == bytes[n]
        low  == FromLeUnsigned(SubSeq(bytes, 1, n - 1))
        high == IF top >= 128 THEN top - 256 ELSE top
    IN  low + high * (256 ^ (n - 1))

\* cpal's T::from_sample(d) for d: T, the conversion of a type to itself
from_sample(ty, d) == d


(***************************************************************************)
(* hound::WavWriter::write_sample(sample: S) as called by the callbacks,   *)
(* for a sample of type ty whose value (or bit pattern) is v: the sample   *)
(* is written with the width of the header's bits_per_sample, whatever S   *)
(* is.  An integer sample too wide for the header, or an f32               *)
(* sample under a header that is not 32 bits wide, is an error.  8-bit     *)
(* samples are stored unsigned (offset 128).                               *)
(***************************************************************************)
Fits(v, bits) == v >= -(2 ^ (bits - 1)) /\ v < 2 ^ (bits - 1)

write_sample(ty, v, bits) ==
    IF ty = "F32"
    THEN IF bits = 32
         THEN [ok |-> TRUE, bytes |-> LeBytes(v, 4)]
         ELSE [ok |-> FALSE, bytes |-> <<>>]
    ELSE CASE bits = 8 ->
                IF Fits(v, 8)
                THEN [ok |-> TRUE, bytes |-> <<v + 128>>]
                ELSE [ok |-> FALSE, bytes |-> <<>>]
           [] bits = 16 ->
                IF Fits(v, 16)
                THEN [ok |-> TRUE, bytes |-> LeBytes(v, 2)]
                ELSE [ok |-> FALSE, bytes |-> <<>>]
           [] bits = 32 -> [ok |-> TRUE, bytes |-> LeBytes(v, 4)]
           [] OTHER -> [ok |-> FALSE, bytes |-> <<>>]

\* one sample read back from the file under the header `spec`
DecodeSample(spec, bytes) ==
    IF spec.sample_format = "Float" THEN FloatSample(FromLeSigned(bytes))
    ELSE IF spec.bits_per_sample = 8 THEN IntSample(bytes[1] - 128)
    ELSE IntSample(FromLeSigned(bytes))

\* the sample sequence a reader of the file decodes
RECURSIVE DecodeSamples(_, _)
DecodeSamples(spec, data) ==
    LET w == spec.bits_per_sample \div 8
    IN  IF Len(data) < w THEN <<>>
        ELSE <<DecodeSample(spec, SubSeq(data, 1, w))>>
             \o DecodeSamples(spec, SubSeq(data, w + 1, Len(data)))

\* b1 ++ b2 ++ ... ++ bn
RECURSIVE Flatten(_)
Flatten(bufs) ==
    IF bufs = <<>> THEN <<>> ELSE Head(bufs) \o Flatten(Tail(bufs))

(***************************************************************************)
(* State.                                                                  *)
(***************************************************************************)
VARIABLES
    prog,       \* the client on the control thread: "main", "cli" or "api"
    opts,       \* the parsed command line (Opts of main.rs / cli.rs)
    pc,         \* position of the control thread
    count,      \* loop variable of the countdown
    device,     \* Option<DeviceBuilder> still owned by the client
    stream,     \* Option<StreamBuilder>: the client's `stream` variable
    slot,       \* the shared Mutex<Option<WavWriter>>: "absent" | "Some" | "None"
    lock,       \* the Mutex: [holder, poisoned]
    file,       \* Option of the output file: [spec, data, finalize_calls, closed]
    cb,         \* the audio thread: [pc, data, i]
    delivered,  \* the buffers the backend has handed to the callback, in order
    taken,      \* Option of [n, idle, bytes]: at the take, the buffers delivered,
                \* whether the callback was idle, and the length of the data
    sleeps,     \* thread::sleep calls of the delay gate: [secs, half]
    gate,       \* "before" | "in" | "after" the delay gate
    resolved,   \* outcome of the last device resolution
    stops,      \* runs of the take-and-finalize block so far
    ret,        \* the last operation and its return value: [op, val]
    result      \* "running", or how the process ended

vars == <<prog, opts, pc, count, device, stream, slot, lock, file, cb,
          delivered, taken, sleeps, gate, resolved, stops, ret, result>>

\* enum Device (lib.rs:47)
DeviceKinds == {"Input", "Output"}

Delays == {None} \cup {Some(d) : d \in 0..MaxDelay}

\* Opts of main.rs (listen, loopback, delay) and of cli.rs (command, kind, delay)
MainOpts ==
    [command : {"Record"}, listen : DeviceKinds, loopback : BOOLEAN,
     delay : Delays]

CliOpts ==
    [command : {"Record", "Loopback"}, listen : DeviceKinds,
     loopback : {FALSE}, delay : Delays]

ApiOpts ==
    [command : {"Record"}, listen : {"Input"}, loopback : {FALSE},
     delay : {None}]

\* the state at process start, for client p with the options of `os`
Start(p, os) ==
    /\ prog = p
    /\ opts \in os
    /\ pc = IF p = "api" THEN "api" ELSE "resolve"
    /\ count = 0
    /\ device = None
    /\ stream = None
    /\ slot = "absent"
    /\ lock = [holder |-> "free", poisoned |-> FALSE]
    /\ file = None
    /\ cb = [pc |-> "idle", data |-> <<>>, i |-> 1]
    /\ delivered = <<>>
    /\ taken = None
    /\ sleeps = [secs |-> 0, half |-> 0]
    /\ gate = "before"
    /\ resolved = "pending"
    /\ stops = 0
    /\ ret = [op |-> "start", val |-> "Ok"]
    /\ result = "running"

\* main.rs
Init == Start("main", MainOpts)

\* cli.rs
InitCli == Start("cli", CliOpts)

\* a caller of the public API of lib.rs
InitApi == Start("api", ApiOpts)

Running == result = "running"

\* the audio thread once the process has ended
Gone == [pc |-> "gone", data |-> <<>>, i |-> 1]

\* the audio thread after a step that leaves the process at `r`
CbAfter(r) == IF r = "running" THEN cb ELSE Gone

(***************************************************************************)
(* The order of the statements of the three clients.  "delay" stands for   *)
(* the whole delay gate and "lock" for the whole take-and-finalize block.  *)
(***************************************************************************)
\* main.rs:42-91
MainOrder ==
    <<"resolve", "from", "loopback", "write_wav", "delay", "play", "prompt",
      "read_line", "lock", "return">>

\* cli.rs:77-124, Command::Record
CliRecordOrder ==
    <<"resolve", "create_writer", "from", "delay", "with_reader", "play",
      "read_line", "lock", "return">>

\* cli.rs:53-76, Command::Loopback
CliLoopbackOrder == <<"resolve", "from", "kind_trick", "delay", "return">>

Order ==
    CASE prog = "main" -> MainOrder
      [] prog = "cli" /\ opts.command = "Record" -> CliRecordOrder
      [] OTHER -> CliLoopbackOrder

\* the statement after `op`
Succ(op) ==
    LET k == CHOOSE j \in 1..Len(Order) : Order[j] = op IN Order[k + 1]

\* where the control thread is after `op`: an API client is between calls;
\* main and cli_main go on, or return the error (`?`)
After(op, ok) ==
    IF prog = "api" THEN "api" ELSE IF ok THEN Succ(op) ELSE "exit"

\* how the process stands after `op`: an Err returned from main ends it
ResultAfter(ok) == IF prog # "api" /\ ~ok THEN "Err" ELSE result

\* the control thread is about to run `op`
At(op) == Running /\ (pc = op \/ (prog = "api" /\ pc = "api"))

(***************************************************************************)
(* lib.rs: DeviceBuilder and StreamBuilder.                                *)
(***************************************************************************)
\* impl Display for Error: the message of each variant (the payload of
\* WriterCreationError left out)
Display_fmt(e) ==
    CASE e = "DefaultInputDeviceError"  -> "Error getting default input device"
      [] e = "DefaultOutputDeviceError" -> "Error getting default output device"
      [] e = "DefaultConfigError"       -> "Error getting output lock"
      [] e = "StreamConfigFormatError"  -> "Bad stream config format"
      [] e = "StreamCreationError"      -> "Error creating stream"
      [] e = "OutputLockError"          -> "Error getting default device config"
      [] e = "WriterCreationError"      -> "Error creating data writer"
      [] e = "PlayError"                -> "Error recording data"

\* enum Error
Errors ==
    {"DefaultInputDeviceError", "DefaultOutputDeviceError",
     "DefaultConfigError", "StreamConfigFormatError", "StreamCreationError",
     "OutputLockError", "WriterCreationError", "PlayError"}

\* what the host may answer: no default device, or a cpal::Device whose
\* default configuration query fails or yields one of Configs
HostDevices ==
    {None} \cup {Some([default_config |-> q]) :
                    q \in {None} \cup {Some(c) : c \in Configs}}

\* new_default with a fallback configuration when the query fails
new_default_fallback(kind, host) ==
    IF host = None
    THEN [val |-> IF kind = "Input" THEN "DefaultInputDeviceError"
                  ELSE "DefaultOutputDeviceError",
          device |-> None]
    ELSE [val |-> "Ok",
          device |-> Some([kind   |-> kind,
                           inner  |-> Unwrap(host),
                           config |-> IF Unwrap(host).default_config = None
                                      THEN CHOOSE c \in Configs :
                                              c.sample_format = "F32"
                                      ELSE Unwrap(Unwrap(host).default_config)])]

\* DeviceBuilder::new_default_input / new_default_output
new_default(kind, host) ==
    IF host = None
    THEN [val |-> IF kind = "Input" THEN "DefaultInputDeviceError"
                  ELSE "DefaultOutputDeviceError",
          device |-> None]
    ELSE IF Unwrap(host).default_config = None
    THEN [val |-> "DefaultConfigError", device |-> None]
    ELSE [val |-> "Ok",
          device |-> Some([kind   |-> kind,
                           inner  |-> Unwrap(host),
                           config |-> Unwrap(Unwrap(host).default_config)])]

\* DeviceBuilder::use_config
use_config(self, config) == [self EXCEPT !.config = config]

\* StreamBuilder::from; `query` is what the device answers to
\* default_input_config / default_output_config this time
StreamBuilder_from(dev, query) ==
    IF query = None
    THEN [val |-> "DefaultConfigError", stream |-> None]
    ELSE [val |-> "Ok",
          stream |-> Some([device |-> dev,
                           config |-> Unwrap(query),
                           stream |-> None,
                           kind   |-> dev.kind])]

\* an as_input that also rebinds the wrapped device
as_input_rebind(self) ==
    [self EXCEPT !.kind = "Input", !.device.kind = "Input"]

\* StreamBuilder::as_input, as_output
as_input(self) == [self EXCEPT !.kind = "Input"]

as_output(self) == [self EXCEPT !.kind = "Output"]

\* the configuration write_wav builds the file header from (lib.rs:232)
header_config(self) == self.device.config

\* the configuration write_wav dispatches on and build_input_stream /
\* build_output_stream hand to the backend (lib.rs:241, 253, 281, 296)
stream_config(self) == self.config

\* hound::WavWriter::create as called with a header
create_writer(spec) ==
    Some([spec |-> spec, data |-> <<>>, finalize_calls |-> 0,
          closed |-> FALSE])

\* dispatch with a default arm that falls through to f32
dispatch_fallthrough(kind, fmt) ==
    LET reg == IF kind = "Input" THEN "build_input_stream"
               ELSE "build_output_stream"
    IN  CASE fmt = "I32" -> [val |-> "Ok", reg |-> reg, ty |-> "I32"]
          [] fmt = "I16" -> [val |-> "Ok", reg |-> reg, ty |-> "I16"]
          [] fmt = "I8"  -> [val |-> "Ok", reg |-> reg, ty |-> "I8"]
          [] OTHER -> [val |-> "Ok", reg |-> reg, ty |-> "F32"]

\* the match of write_wav on self.kind and the sample format: the
\* registration function and the sample type T of write_wav_data::<T>
dispatch(kind, fmt) ==
    LET reg == IF kind = "Input" THEN "build_input_stream"
               ELSE "build_output_stream"
    IN  CASE fmt = "F32" -> [val |-> "Ok", reg |-> reg, ty |-> "F32"]
          [] fmt = "I32" -> [val |-> "Ok", reg |-> reg, ty |-> "I32"]
          [] fmt = "I16" -> [val |-> "Ok", reg |-> reg, ty |-> "I16"]
          [] fmt = "I8"  -> [val |-> "Ok", reg |-> reg, ty |-> "I8"]
          [] OTHER -> [val |-> "StreamConfigFormatError", reg |-> "none",
                       ty |-> "none"]

\* build_input_stream / build_output_stream: the backend accepts the
\* configuration or not.  Whether a stream it has created is already
\* running is up to the platform (cpal: "not all platforms automatically
\* run the stream upon creation"), and nothing here pauses it
build_stream(self, reg, ty, callback, backendOk, autostart) ==
    IF backendOk
    THEN Some([reg |-> reg, ty |-> ty, config |-> stream_config(self),
               callback |-> callback,
               state |-> IF autostart THEN "started" ELSE "paused"])
    ELSE None

\* StreamBuilder::write_wav: the call's value, the new self.stream, the file
\* on disk and the writer slot it returns
write_wav(self, createOk, backendOk, autostart, oldfile) ==
    IF ~createOk
    THEN [val |-> "WriterCreationError", stream |-> self.stream,
          file |-> oldfile, slot |-> "absent"]
    ELSE LET newfile == create_writer(as_wav_spec(header_config(self)))
             d == dispatch(self.kind, stream_config(self).sample_format)
             built == build_stream(self, d.reg, d.ty, "write_wav_data",
                                   backendOk, autostart)
         IN  IF d.val # "Ok"
             THEN [val |-> d.val, stream |-> self.stream,
                   file |-> newfile, slot |-> "absent"]
             ELSE IF built = None
             THEN [val |-> "StreamCreationError", stream |-> self.stream,
                   file |-> newfile, slot |-> "absent"]
             ELSE [val |-> "Ok", stream |-> built, file |-> newfile,
                   slot |-> "Some"]

\* play that insists on a stream
play_unwrap(self, backendOk) ==
    IF self.stream # None /\ backendOk
    THEN [val |-> "Ok",
          stream |-> Some([Unwrap(self.stream) EXCEPT !.state = "playing"])]
    ELSE [val |-> "PlayError", stream |-> self.stream]

\* StreamBuilder::play: nothing to start, or the backend starts the stream
\* or refuses
play(self, backendOk) ==
    IF self.stream = None THEN [val |-> "Ok", stream |-> self.stream]
    ELSE IF backendOk
    THEN [val |-> "Ok",
          stream |-> Some([Unwrap(self.stream) EXCEPT !.state = "playing"])]
    ELSE [val |-> "PlayError", stream |-> self.stream]

\* a take that leaves the writer in the slot
take_keep(s) == s

\* Option::take on the slot: what it leaves behind
take(s) == "None"

\* a lock that does not exclude
CanLockAlways(l) == TRUE

\* Mutex::lock can be acquired
CanLock(l) == l.holder = "free"

(***************************************************************************)
(* The control thread.                                                     *)
(***************************************************************************)
\* the cpal::Stream held by the controller
Hw == Unwrap(Unwrap(stream).stream)

StreamBuilt == stream # None /\ Unwrap(stream).stream # None

\* an operation `op` of the client returned `val`
Returned(op, val) ==
    /\ ret' = [op |-> op, val |-> val]
    /\ pc' = After(op, val = "Ok")
    /\ result' = ResultAfter(val = "Ok")

\* main.rs:42-46, cli.rs:54-57, 80-83
Resolve ==
    /\ At("resolve")
    /\ device = None /\ stream = None
    /\ \E kind \in (IF prog = "api" THEN DeviceKinds ELSE {opts.listen}),
          host \in HostDevices :
          LET r == new_default(kind, host) IN
          /\ device' = r.device
          /\ resolved' = IF host = None THEN "no_device"
                         ELSE IF Unwrap(host).default_config = None
                         THEN "no_config" ELSE "ok"
          /\ Returned("resolve", r.val)
    /\ UNCHANGED <<prog, opts, count, stream, slot, lock, file, cb,
                   delivered, taken, sleeps, gate, stops>>

\* a caller of the library overrides the device's configuration
UseConfig ==
    /\ Running /\ prog = "api" /\ pc = "api"
    /\ device # None
    /\ \E c \in OverrideConfigs :
          device' = Some(use_config(Unwrap(device), c))
    /\ ret' = [op |-> "use_config", val |-> "Ok"]
    /\ UNCHANGED <<prog, opts, pc, count, stream, slot, lock, file, cb,
                   delivered, taken, sleeps, gate, resolved, stops, result>>

\* main.rs:53, cli.rs:63, 92
From ==
    /\ At("from")
    /\ device # None /\ stream = None
    /\ \E query \in {Unwrap(device).inner.default_config, None} :
          LET r == StreamBuilder_from(Unwrap(device), query) IN
          /\ stream' = r.stream
          /\ Returned("from", r.val)
    /\ device' = None
    /\ UNCHANGED <<prog, opts, count, slot, lock, file, cb, delivered,
                   taken, sleeps, gate, resolved, stops>>

\* main.rs:55-57
Loopback ==
    /\ Running /\ pc = "loopback"
    /\ stream' = IF Unwrap(stream).device.kind = "Output" /\ opts.loopback
                 THEN Some(as_input(Unwrap(stream))) ELSE stream
    /\ pc' = Succ("loopback")
    /\ UNCHANGED <<prog, opts, count, device, slot, lock, file, cb,
                   delivered, taken, sleeps, gate, resolved, stops, ret,
                   result>>

\* cli.rs:66-69
KindTrick ==
    /\ Running /\ pc = "kind_trick"
    /\ stream' = IF opts.listen = "Input"
                 THEN Some(as_input(Unwrap(stream)))
                 ELSE Some(as_output(Unwrap(stream)))
    /\ pc' = Succ("kind_trick")
    /\ UNCHANGED <<prog, opts, count, device, slot, lock, file, cb,
                   delivered, taken, sleeps, gate, resolved, stops, ret,
                   result>>

\* a caller of the library switches the controller's kind, before the
\* write_wav that reads it
AsInput ==
    /\ Running /\ prog = "api" /\ pc = "api"
    /\ stream # None /\ ~StreamBuilt
    /\ stream' = Some(as_input(Unwrap(stream)))
    /\ ret' = [op |-> "as_input", val |-> "Ok"]
    /\ UNCHANGED <<prog, opts, pc, count, device, slot, lock, file, cb,
                   delivered, taken, sleeps, gate, resolved, stops, result>>

AsOutput ==
    /\ Running /\ prog = "api" /\ pc = "api"
    /\ stream # None /\ ~StreamBuilt
    /\ stream' = Some(as_output(Unwrap(stream)))
    /\ ret' = [op |-> "as_output", val |-> "Ok"]
    /\ UNCHANGED <<prog, opts, pc, count, device, slot, lock, file, cb,
                   delivered, taken, sleeps, gate, resolved, stops, result>>

\* cli.rs:89-90
CreateWriter ==
    /\ Running /\ pc = "create_writer"
    /\ \E createOk \in BOOLEAN :
          /\ file' = IF createOk
                     THEN create_writer(as_wav_spec(Unwrap(device).config))
                     ELSE file
          /\ Returned("create_writer",
                      IF createOk THEN "Ok" ELSE "WriterCreationError")
    /\ UNCHANGED <<prog, opts, count, device, stream, slot, lock, cb,
                   delivered, taken, sleeps, gate, resolved, stops>>

\* main.rs:59
WriteWav ==
    /\ At("write_wav")
    /\ stream # None /\ slot = "absent"
    /\ \E createOk \in BOOLEAN, backendOk \in BOOLEAN, autostart \in BOOLEAN :
          LET r == write_wav(Unwrap(stream), createOk, backendOk, autostart,
                             file) IN
          /\ stream' = Some([Unwrap(stream) EXCEPT !.stream = r.stream])
          /\ file' = r.file
          /\ slot' = r.slot
          /\ Returned("write_wav", r.val)
    /\ UNCHANGED <<prog, opts, count, device, lock, cb, delivered, taken,
                   sleeps, gate, resolved, stops>>

\* StreamBuilder::with_reader, which cli.rs calls and lib.rs does not
\* define: it builds the hardware stream around a callback that receives
\* each buffer as raw bytes
with_reader(self, backendOk, autostart) ==
    LET reg == IF self.kind = "Input" THEN "build_input_stream"
               ELSE "build_output_stream"
        built == build_stream(self, reg, "bytes", "reader", backendOk,
                              autostart)
    IN  IF built = None
        THEN [val |-> "StreamCreationError", stream |-> self.stream]
        ELSE [val |-> "Ok", stream |-> built]

\* cli.rs:96-112
WithReader ==
    /\ Running /\ pc = "with_reader"
    /\ \E backendOk \in BOOLEAN, autostart \in BOOLEAN :
          LET r == with_reader(Unwrap(stream), backendOk, autostart) IN
          /\ stream' = Some([Unwrap(stream) EXCEPT !.stream = r.stream])
          /\ Returned("with_reader", r.val)
    /\ slot' = "Some"
    /\ UNCHANGED <<prog, opts, count, device, lock, file, cb, delivered,
                   taken, sleeps, gate, resolved, stops>>

(***************************************************************************)
(* The delay gate: main.rs:61-74 and do_delay of cli.rs.  Writing to       *)
(* stdout may fail, which returns the error.                               *)
(***************************************************************************)
\* the gate's `if let Some(delay)`, and its first write and flush
DelayEnter ==
    /\ Running /\ pc = "delay"
    /\ IF opts.delay = None
       THEN /\ pc' = Succ("delay")
            /\ gate' = "after"
            /\ UNCHANGED <<count, ret, result>>
       ELSE \E stdoutOk \in BOOLEAN :
               IF stdoutOk
               THEN /\ pc' = "delay_loop"
                    /\ gate' = "in"
                    /\ count' = Unwrap(opts.delay)
                    /\ UNCHANGED <<ret, result>>
               ELSE /\ Returned("delay", "IoError")
                    /\ gate' = "in"
                    /\ UNCHANGED count
    /\ cb' = CbAfter(result')
    /\ UNCHANGED <<prog, opts, device, stream, slot, lock, file,
                   delivered, taken, sleeps, resolved, stops>>

\* one turn of `for i in (1..=delay).rev()`: write, flush, sleep a second
DelayTick ==
    /\ Running /\ pc = "delay_loop"
    /\ count >= 1
    /\ \E stdoutOk \in BOOLEAN :
          IF stdoutOk
          THEN /\ sleeps' = [sleeps EXCEPT !.secs = @ + 1]
               /\ count' = count - 1
               /\ UNCHANGED <<pc, ret, result>>
          ELSE /\ Returned("delay", "IoError")
               /\ UNCHANGED <<sleeps, count>>
    /\ cb' = CbAfter(result')
    /\ UNCHANGED <<prog, opts, device, stream, slot, lock, file,
                   delivered, taken, gate, resolved, stops>>

\* after the loop: print!("\r") and the half-second sleep
DelayPause ==
    /\ Running /\ pc = "delay_loop"
    /\ count = 0
    /\ sleeps' = [sleeps EXCEPT !.half = @ + 1]
    /\ gate' = "after"
    /\ pc' = Succ("delay")
    /\ UNCHANGED <<prog, opts, count, device, stream, slot, lock, file, cb,
                   delivered, taken, resolved, stops, ret, result>>

\* main.rs:76, cli.rs:114
Play ==
    /\ At("play")
    /\ stream # None
    /\ \E backendOk \in BOOLEAN :
          LET r == play(Unwrap(stream), backendOk) IN
          /\ stream' = Some([Unwrap(stream) EXCEPT !.stream = r.stream])
          /\ Returned("play", r.val)
    /\ cb' = CbAfter(result')
    /\ UNCHANGED <<prog, opts, count, device, slot, lock, file,
                   delivered, taken, sleeps, gate, resolved, stops>>

\* main.rs:78-80
Prompt ==
    /\ Running /\ pc = "prompt"
    /\ \E stdoutOk \in BOOLEAN :
          Returned("prompt", IF stdoutOk THEN "Ok" ELSE "IoError")
    /\ cb' = CbAfter(result')
    /\ UNCHANGED <<prog, opts, count, device, stream, slot, lock, file,
                   delivered, taken, sleeps, gate, resolved, stops>>

\* main.rs:82, cli.rs:116: the stop signal; a failed read skips the block
ReadLine ==
    /\ Running /\ pc = "read_line"
    /\ \E ok \in BOOLEAN :
          /\ pc' = IF ok THEN "lock" ELSE Succ("lock")
          /\ ret' = [op |-> "read_line",
                     val |-> IF ok THEN "Ok" ELSE "IoError"]
    /\ UNCHANGED <<prog, opts, count, device, stream, slot, lock, file, cb,
                   delivered, taken, sleeps, gate, resolved, stops, result>>

(***************************************************************************)
(* The take-and-finalize block, main.rs:83-88 and cli.rs:117-122.  The     *)
(* guard `wlock` lives to the end of the `if let Ok` block, so the lock is *)
(* held across take and finalize.                                          *)
(***************************************************************************)
\* writer.lock(): blocks until the lock is free; Err if it is poisoned
Lock ==
    /\ At("lock")
    /\ slot # "absent"
    /\ prog = "api" => stops < MaxStops
    /\ CanLock(lock)
    /\ stops' = stops + 1
    /\ IF lock.poisoned
       THEN /\ pc' = After("lock", TRUE)
            /\ ret' = [op |-> "lock", val |-> "PoisonError"]
            /\ UNCHANGED lock
       ELSE /\ pc' = "take"
            /\ ret' = [op |-> "lock", val |-> "Ok"]
            /\ lock' = [lock EXCEPT !.holder = "ctl"]
    /\ UNCHANGED <<prog, opts, count, device, stream, slot, file, cb,
                   delivered, taken, sleeps, gate, resolved, result>>

\* wlock.take()
Take ==
    /\ Running /\ pc = "take"
    /\ IF slot = "Some"
       THEN /\ slot' = take(slot)
            /\ taken' = Some([n     |-> Len(delivered),
                              idle  |-> cb.pc \in {"idle", "dead"},
                              bytes |-> Len(Unwrap(file).data)])
            /\ pc' = "finalize"
            /\ ret' = [op |-> "take", val |-> "Some"]
       ELSE /\ pc' = "unlock"
            /\ ret' = [op |-> "take", val |-> "None"]
            /\ UNCHANGED <<slot, taken>>
    /\ UNCHANGED <<prog, opts, count, device, stream, lock, file, cb,
                   delivered, sleeps, gate, resolved, stops, result>>

\* writer.finalize()?: flush, patch the header, close; an error returns
\* from the block, dropping the guard
Finalize ==
    /\ Running /\ pc = "finalize"
    /\ \E ok \in BOOLEAN :
          /\ file' = Some([Unwrap(file) EXCEPT
                              !.finalize_calls = @ + 1, !.closed = ok])
          /\ IF ok
             THEN /\ pc' = "unlock"
                  /\ ret' = [op |-> "finalize", val |-> "Ok"]
                  /\ UNCHANGED <<lock, result>>
             ELSE /\ lock' = [lock EXCEPT !.holder = "free"]
                  /\ ret' = [op |-> "finalize", val |-> "FinalizeError"]
                  /\ pc' = After("lock", FALSE)
                  /\ result' = ResultAfter(FALSE)
    /\ cb' = CbAfter(result')
    /\ UNCHANGED <<prog, opts, count, device, stream, slot, delivered,
                   taken, sleeps, gate, resolved, stops>>

\* the end of the block: the guard is dropped
Unlock ==
    /\ Running /\ pc = "unlock"
    /\ lock' = [lock EXCEPT !.holder = "free"]
    /\ pc' = After("lock", TRUE)
    /\ UNCHANGED <<prog, opts, count, device, stream, slot, file, cb,
                   delivered, taken, sleeps, gate, resolved, stops, ret,
                   result>>

\* main.rs:91, cli.rs:127: Ok(())
Return ==
    /\ Running /\ pc = "return"
    /\ result' = "Ok"
    /\ pc' = "exit"
    /\ cb' = CbAfter(result')
    /\ UNCHANGED <<prog, opts, count, device, stream, slot, lock, file,
                   delivered, taken, sleeps, gate, resolved, stops, ret>>

(***************************************************************************)
(* The audio thread.  The backend invokes the data callback once per       *)
(* buffer, one invocation at a time, while the stream is running.          *)
(***************************************************************************)
\* play() has started the stream
Playing == StreamBuilt /\ Hw.state = "playing"

\* the backend invokes the data callback: the stream runs, started by
\* play() or by the platform at creation
Active == StreamBuilt /\ Hw.state \in {"started", "playing"}

\* the raw bytes of a buffer of samples of format fmt
ToBytes(buf, fmt) ==
    Flatten([k \in 1..Len(buf) |-> LeBytes(buf[k].v, sample_size(fmt))])

\* `d as i8` for a byte d
as_i8(d) == IF d >= 128 THEN d - 256 ELSE d

\* the backend calls the closure registered by write_wav (lib.rs:243-261)
\* or by cli.rs:101 with the next buffer
CbInvoke ==
    /\ Running /\ Active
    /\ cb.pc = "idle"
    /\ Len(delivered) < MaxCallbacks
    /\ \E buf \in BuffersOf(IF Hw.callback = "reader"
                            THEN Hw.config.sample_format ELSE Hw.ty) :
          /\ delivered' = Append(delivered, buf)
          /\ cb' = [pc |-> "lock",
                    data |-> IF Hw.callback = "reader"
                             THEN ToBytes(buf, Hw.config.sample_format)
                             ELSE buf,
                    i |-> 1]
    /\ UNCHANGED <<prog, opts, pc, count, device, stream, slot, lock, file,
                   taken, sleeps, gate, resolved, stops, ret, result>>

\* lib.rs:316, cli.rs:102: `if let Ok(mut wlock) = writer.lock()`
CbLock ==
    /\ Running /\ cb.pc = "lock"
    /\ CanLock(lock)
    /\ IF lock.poisoned
       THEN /\ cb' = [cb EXCEPT !.pc = "idle"]
            /\ UNCHANGED lock
       ELSE /\ cb' = [cb EXCEPT !.pc = "check"]
            /\ lock' = [lock EXCEPT !.holder = "cb"]
    /\ UNCHANGED <<prog, opts, pc, count, device, stream, slot, file,
                   delivered, taken, sleeps, gate, resolved, stops, ret,
                   result>>

\* an as_mut that is unwrapped without looking
as_mut_unchecked(s) == TRUE

\* what `wlock.as_mut()` finds in the slot s: a writer to append to, or not
as_mut(s) == s = "Some"

\* lib.rs:317, cli.rs:103: `if let Some(writer) = wlock.as_mut()`
CbCheck ==
    /\ Running /\ cb.pc = "check"
    /\ cb' = [cb EXCEPT !.pc = IF as_mut(slot) THEN "write" ELSE "return"]
    /\ UNCHANGED <<prog, opts, pc, count, device, stream, slot, lock, file,
                   delivered, taken, sleeps, gate, resolved, stops, ret,
                   result>>

\* the sample the callback hands to write_sample for element d of its
\* buffer, and its type: T::from_sample(d) (lib.rs:320), `d as i8`
\* (cli.rs:106)
CallbackSample(hw, d) ==
    IF hw.callback = "reader"
    THEN [ty |-> "I8", v |-> as_i8(d)]
    ELSE [ty |-> hw.ty, v |-> from_sample(hw.ty, d).v]

\* the writer's data after one more sample's bytes
append(data, bytes) == data \o bytes

\* a guard given back after every sample
drop_guard(l) == [l EXCEPT !.holder = "free"]

\* the guard `wlock` between two turns of the loop: it lives to the end of
\* the `if let Ok` block, so the lock stays with its holder
keep_guard(l) == l

\* a panic that leaves the lock with the dead thread
unwind_leak(l) == [l EXCEPT !.poisoned = TRUE]

\* a panic unwinding out of write_wav_data drops the guard: the Mutex is
\* released and poisoned
unwind(l) == [holder |-> "free", poisoned |-> TRUE]

\* one turn of `for &d in data`: write_sample(..).expect(..).  A failed
\* write panics on the audio thread with the guard held: the lock is
\* poisoned and released, the thread is gone, and where the backend calls
\* the closure from foreign code the panic aborts the process
CbWrite ==
    /\ Running /\ cb.pc = "write"
    /\ LET f == Unwrap(file)
           smp == CallbackSample(Hw, cb.data[cb.i])
           w == write_sample(smp.ty, smp.v, f.spec.bits_per_sample)
       IN  \E ioOk \in BOOLEAN, aborts \in BOOLEAN :
              IF w.ok /\ ioOk
              THEN /\ file' = Some([f EXCEPT !.data = append(@, w.bytes)])
                   /\ cb' = [cb EXCEPT
                                !.i = @ + 1,
                                !.pc = IF cb.i = Len(cb.data)
                                       THEN "return" ELSE "write"]
                   /\ lock' = keep_guard(lock)
                   /\ UNCHANGED <<result, pc>>
              ELSE /\ lock' = unwind(lock)
                   /\ cb' = IF aborts THEN Gone
                            ELSE [pc |-> "dead", data |-> <<>>, i |-> 1]
                   /\ result' = IF aborts THEN "abort" ELSE result
                   /\ pc' = IF aborts THEN "exit" ELSE pc
                   /\ UNCHANGED file
    /\ UNCHANGED <<prog, opts, count, device, stream, slot, delivered,
                   taken, sleeps, gate, resolved, stops, ret>>

\* the end of write_wav_data: the guard is dropped
CbReturn ==
    /\ Running /\ cb.pc = "return"
    /\ cb' = [pc |-> "idle", data |-> <<>>, i |-> 1]
    /\ lock' = [lock EXCEPT !.holder = "free"]
    /\ UNCHANGED <<prog, opts, pc, count, device, stream, slot, file,
                   delivered, taken, sleeps, gate, resolved, stops, ret,
                   result>>

\* the error callback of the stream (lib.rs:283, 298): fail! exits
BackendError ==
    /\ Running /\ StreamBuilt
    /\ result' = "exit1"
    /\ pc' = "exit"
    /\ cb' = CbAfter(result')
    /\ lock' = [lock EXCEPT !.holder = "free"]
    /\ UNCHANGED <<prog, opts, count, device, stream, slot, file,
                   delivered, taken, sleeps, gate, resolved, stops, ret>>

\* the audio thread and the backend
Audio ==
    \/ CbInvoke \/ CbLock \/ CbCheck \/ CbWrite \/ CbReturn \/ BackendError

\* the take-and-finalize block
Stop == Lock \/ Take \/ Finalize \/ Unlock

\* main.rs
Next ==
    \/ Resolve \/ From \/ Loopback \/ WriteWav
    \/ DelayEnter \/ DelayTick \/ DelayPause
    \/ Play \/ Prompt \/ ReadLine \/ Stop \/ Return
    \/ Audio

Spec == Init /\ [][Next]_vars

\* cli.rs
NextCli ==
    \/ Resolve \/ CreateWriter \/ From \/ KindTrick
    \/ DelayEnter \/ DelayTick \/ DelayPause
    \/ WithReader \/ Play \/ ReadLine \/ Stop \/ Return
    \/ Audio

SpecCli == InitCli /\ [][NextCli]_vars

\* a caller of the public API of lib.rs
NextApi ==
    \/ Resolve \/ UseConfig \/ From \/ AsInput \/ AsOutput \/ WriteWav
    \/ Play \/ Stop
    \/ Audio

SpecApi == InitApi /\ [][NextApi]_vars

(***************************************************************************)
(* Properties.                                                             *)
(***************************************************************************)
\* C1: once the control thread has taken the writer out of the slot, the
\* callback never appends again (the data keeps the length it had at the
\* take), never reaches its write loop, never panics (the lock is not
\* poisoned, the audio thread is not dead, the process is not aborted).
C1_CallbackAfterTakeIsNoop ==
    taken # None =>
        /\ Len(Unwrap(file).data) = Unwrap(taken).bytes
        /\ cb.pc \notin {"write", "dead"}
        /\ ~lock.poisoned
        /\ result # "abort"

\* C1 witness: a callback invoked after the take has run and returned
C1_Witness ==
    /\ taken # None
    /\ Len(delivered) > Unwrap(taken).n
    /\ cb.pc = "idle"
    /\ Running

\* C2: the writer is finalized at most once: a take empties the slot, a
\* finalize is only ever the first one, and a later run of the block finds
\* the slot empty and leaves the file alone.
C2_FinalizedAtMostOnce ==
    /\ file # None => Unwrap(file).finalize_calls <= 1
    /\ taken # None => slot = "None"
    /\ pc = "finalize" => Unwrap(file).finalize_calls = 0
    /\ (taken # None /\ ret.op = "take" /\ ret.val = "None") =>
           Unwrap(file).finalize_calls = 1

\* C2 witness: the block ran a second time, found the slot empty, and the
\* one finalize stands
C2_Witness ==
    /\ stops >= 2
    /\ ret = [op |-> "take", val |-> "None"]
    /\ pc = "unlock"
    /\ Unwrap(file).finalize_calls = 1
    /\ Unwrap(file).closed

\* C3: the two threads never hold the writer at once: while the callback is
\* between its lock and the end of write_wav_data the control thread is not
\* between its lock and the end of its block, and the holder of the lock is
\* the thread that is inside.
C3_MutualExclusion ==
    /\ ~(cb.pc \in {"check", "write", "return"}
         /\ pc \in {"take", "finalize", "unlock"})
    /\ cb.pc \in {"check", "write", "return"} => lock.holder = "cb"
    /\ pc \in {"take", "finalize", "unlock"} => lock.holder = "ctl"

\* C3 witness: the callback waits for the lock while the control thread is
\* about to finalize the writer it took
C3_Witness == pc = "finalize" /\ cb.pc = "lock"

\* C4: the header of the output file is built from the configuration the
\* callback's sample type is selected by and the hardware stream is built
\* with.
C4_OneConfig ==
    (StreamBuilt /\ Hw.callback = "write_wav_data") =>
        /\ Unwrap(file).spec = as_wav_spec(Hw.config)
        /\ header_config(Unwrap(stream)) = stream_config(Unwrap(stream))

\* C5: when the writer was taken with no callback in flight and finalize
\* succeeded, the samples decoded from the file are the buffers delivered
\* before the take, concatenated in order, each value unchanged.
C5_FileIsConcatenation ==
    (/\ StreamBuilt /\ Hw.callback = "write_wav_data"
     /\ taken # None /\ Unwrap(taken).idle
     /\ Unwrap(file).closed /\ ~lock.poisoned) =>
        DecodeSamples(Unwrap(file).spec, Unwrap(file).data)
            = Flatten(SubSeq(delivered, 1, Unwrap(taken).n))

\* the statement of C5 where the header and the stream share one
\* configuration, as they do unless use_config was called
FileIsConcatenationUnderOneConfig ==
    (StreamBuilt /\ header_config(Unwrap(stream)) = stream_config(Unwrap(stream)))
        => C5_FileIsConcatenation

\* C6 as stated: write_wav on a format outside the four returns
\* Err(StreamConfigFormatError).
C6_Original ==
    (ret.op = "write_wav"
     /\ stream_config(Unwrap(stream)).sample_format \notin SupportedFormats)
        => ret.val = "StreamConfigFormatError"

\* C6, amended: write_wav that returns Ok was given one of the four formats
\* and built the stream with the registration function of its kind and the
\* callback of that very sample type; on any other format it builds no
\* stream and hands out no writer, and returns
\* Err(StreamConfigFormatError), with the file created, unless creating
\* the writer already failed (Err(WriterCreationError)).
C6_DispatchClosed ==
    ret.op = "write_wav" =>
        LET self == Unwrap(stream)
            fmt  == stream_config(self).sample_format
        IN  /\ ret.val = "Ok" =>
                /\ fmt \in SupportedFormats
                /\ StreamBuilt
                /\ Hw.ty = fmt
                /\ Hw.reg = IF self.kind = "Input" THEN "build_input_stream"
                            ELSE "build_output_stream"
            /\ fmt \notin SupportedFormats =>
                /\ ~StreamBuilt
                /\ slot = "absent"
                /\ ret.val \in {"StreamConfigFormatError",
                                "WriterCreationError"}
            /\ ret.val = "StreamConfigFormatError" =>
                fmt \notin SupportedFormats /\ file # None

\* C6 witness: write_wav on a u16 device returned the format error and
\* built nothing
C6_Witness ==
    /\ ret = [op |-> "write_wav", val |-> "StreamConfigFormatError"]
    /\ stream_config(Unwrap(stream)).sample_format = "U16"
    /\ ~StreamBuilt

\* C7: a call of play() on a controller without a stream returns Ok and
\* changes nothing: the controller, the slot, the lock, the file and the
\* audio thread are as before.
C7_PlayWithoutStream ==
    [][(/\ ret'.op = "play" /\ ret' # ret
        /\ stream # None /\ Unwrap(stream).stream = None)
       => (/\ ret'.val = "Ok"
           /\ UNCHANGED <<stream, device, slot, lock, file, cb, delivered,
                          taken, result>>)]_vars

\* C7 witness: play() has returned Ok on a controller with no stream
C7_Witness ==
    /\ ret = [op |-> "play", val |-> "Ok"]
    /\ stream # None
    /\ Unwrap(stream).stream = None
    /\ cb.pc = "idle" /\ delivered = <<>>

\* C8: with no delay, or a delay of 0 seconds, the gate never sleeps.
C8_NoDelayNoSleep ==
    opts.delay \in {None, Some(0)} => sleeps.secs = 0 /\ sleeps.half = 0

\* C9: in the recording flow the delay gate runs with the stream built and
\* not yet playing, and the stream plays only after the gate.
C9_BuildDelayPlay ==
    opts.command = "Record" =>
        /\ pc \in {"delay", "delay_loop"} => StreamBuilt /\ ~Playing
        /\ gate = "in" => StreamBuilt /\ ~Playing
        /\ Playing => gate = "after"

\* C10: when the host has no default device, or the device's default
\* configuration cannot be queried, main returns the typed error at once:
\* no file exists, no controller, no stream, no writer.
C10_ResolveFailureLeavesNothing ==
    /\ resolved \in {"no_device", "no_config"} =>
          /\ pc = "exit" /\ result = "Err"
          /\ ret.op = "resolve"
          /\ ret.val = (IF resolved = "no_config" THEN "DefaultConfigError"
                        ELSE IF opts.listen = "Input"
                        THEN "DefaultInputDeviceError"
                        ELSE "DefaultOutputDeviceError")
          /\ file = None /\ stream = None /\ slot = "absent"
    /\ (ret.op = "from" /\ ret.val # "Ok") =>
          /\ pc = "exit" /\ result = "Err"
          /\ file = None /\ stream = None /\ slot = "absent"

\* C10 witness: the device was found but its configuration query failed,
\* and main has returned the error
C10_Witness ==
    /\ resolved = "no_config"
    /\ result = "Err"
    /\ ret = [op |-> "resolve", val |-> "DefaultConfigError"]

\* C11: the control thread does not hold the lock during the flush-and-close
\* of finalize: it released the lock after the take.
C11_LockFreeDuringFinalize ==
    pc = "finalize" => lock.holder # "ctl"

\* the callback cannot get the lock while the control thread finalizes
CallbackBlockedDuringFinalize ==
    (pc = "finalize" /\ cb.pc = "lock") => ~CanLock(lock)

\* C12: after a failed sample write in the callback (the panic poisons the
\* lock) the process never returns success.
C12_WriteFailureIsFatal ==
    lock.poisoned => result # "Ok"

\* C13: whenever main returns Ok after the stop signal was read, the slot
\* is empty and the writer has been finalized.
C13_FinalizedBeforeOk ==
    (result = "Ok" /\ ret.op # "read_line") =>
        /\ slot = "None"
        /\ Unwrap(file).finalize_calls = 1
        /\ Unwrap(file).closed

\* the statement of C13 in the runs where no callback panicked
FinalizedBeforeOkUnlessPoisoned ==
    ~lock.poisoned => C13_FinalizedBeforeOk

\* C14: a call of as_input / as_output sets the controller's kind and
\* nothing else: the wrapped device and its kind, both configurations, the
\* stream slot and the rest of the state stay as they were; and the kind is
\* what selects the registration function write_wav invokes.
C14_KindOnly ==
    /\ [](ret = [op |-> "write_wav", val |-> "Ok"] =>
             Hw.reg = IF Unwrap(stream).kind = "Input"
                      THEN "build_input_stream" ELSE "build_output_stream")
    /\ [][(/\ ret'.op \in {"as_input", "as_output"}
           /\ (ret' # ret \/ stream' # stream))
          => (/\ Unwrap(stream').kind =
                    (IF ret'.op = "as_input" THEN "Input" ELSE "Output")
              /\ Unwrap(stream').device = Unwrap(stream).device
              /\ Unwrap(stream').device.kind = Unwrap(stream).device.kind
              /\ Unwrap(stream').device.config = Unwrap(stream).device.config
              /\ Unwrap(stream').config = Unwrap(stream).config
              /\ Unwrap(stream').stream = Unwrap(stream).stream
              /\ UNCHANGED <<device, slot, lock, file, cb, delivered, taken,
                             result>>)]_vars

\* C14 witness: on a controller of an output device switched by as_input,
\* write_wav registered the callback with build_input_stream, and the
\* device is still an output device
C14_Witness ==
    /\ ret = [op |-> "write_wav", val |-> "Ok"]
    /\ Unwrap(stream).device.kind = "Output"
    /\ Unwrap(stream).kind = "Input"
    /\ Hw.reg = "build_input_stream"

\* C15: the header write_wav creates the file with has the channels and the
\* sample rate of the device configuration, 32 bits for F32 and I32, 16 for
\* I16, 8 for I8, and the Float tag for F32 only.
C15_HeaderOfConfig ==
    (/\ ret.op = "write_wav" /\ ret.val # "WriterCreationError"
     /\ header_config(Unwrap(stream)).sample_format \in SupportedFormats) =>
        LET c == header_config(Unwrap(stream))
            h == Unwrap(file).spec
        IN  /\ h.channels = c.channels
            /\ h.sample_rate = c.sample_rate
            /\ h.bits_per_sample =
                  (CASE c.sample_format = "F32" -> 32
                     [] c.sample_format = "I32" -> 32
                     [] c.sample_format = "I16" -> 16
                     [] c.sample_format = "I8"  -> 8)
            /\ h.sample_format =
                  (IF c.sample_format = "F32" THEN "Float" ELSE "Int")

\* C15 witness: write_wav created the file of a stereo 44.1 kHz f32 device
C15_Witness ==
    /\ ret = [op |-> "write_wav", val |-> "Ok"]
    /\ Unwrap(file).spec = [channels |-> 2, sample_rate |-> 44100,
                            bits_per_sample |-> 32, sample_format |-> "Float"]

\* C16: the stream slot is Some exactly when a write_wav has succeeded and
\* handed out the writer; a write_wav that returns an error leaves the
\* stream slot None and hands out no writer; and while the stream is built
\* but play() has not been called the file holds no sample.
C16_ArmedBeforePlaying ==
    /\ (ret.op = "write_wav" /\ ret.val # "Ok") =>
           ~StreamBuilt /\ slot = "absent"
    /\ StreamBuilt <=> slot # "absent"
    /\ ~StreamBuilt => delivered = <<>>
    /\ (StreamBuilt /\ ~Playing) => Unwrap(file).data = <<>>

\* the part of C16 about write_wav alone
ArmedOnlyByWriteWav ==
    /\ (ret.op = "write_wav" /\ ret.val # "Ok") =>
           ~StreamBuilt /\ slot = "absent"
    /\ StreamBuilt <=> slot # "absent"
    /\ ~StreamBuilt => delivered = <<>>

\* C17: in the record command of cli.rs, the sample the callback hands to
\* write_sample has the width and the integer/float kind of the header.
C17_ReaderSampleMatchesHeader ==
    (StreamBuilt /\ Hw.callback = "reader" /\ cb.pc = "write") =>
        LET smp == CallbackSample(Hw, cb.data[cb.i])
            h   == Unwrap(file).spec
        IN  /\ sample_size(smp.ty) * 8 = h.bits_per_sample
            /\ is_float(smp.ty) <=> h.sample_format = "Float"

\* C18: an Err(DefaultConfigError) that main returns displays the message
\* about the device configuration, and OutputLockError displays the message
\* about the lock.
C18_OwnMessage ==
    (result = "Err" /\ ret.val = "DefaultConfigError") =>
        /\ Display_fmt(ret.val) = "Error getting default device config"
        /\ Display_fmt("OutputLockError") = "Error getting output lock"

\* the messages of the other variants name their own failure, and no two
\* variants share a message
OtherMessagesOwn ==
    /\ Display_fmt("DefaultInputDeviceError") = "Error getting default input device"
    /\ Display_fmt("DefaultOutputDeviceError") = "Error getting default output device"
    /\ Display_fmt("StreamConfigFormatError") = "Bad stream config format"
    /\ Display_fmt("StreamCreationError") = "Error creating stream"
    /\ Display_fmt("WriterCreationError") = "Error creating data writer"
    /\ Display_fmt("PlayError") = "Error recording data"
    /\ \A a, b \in Errors : Display_fmt(a) = Display_fmt(b) => a = b

\* C19: the control thread never takes the writer in the middle of a
\* buffer: once the writer is taken, the file holds the samples of the
\* first k buffers delivered and no more, where k counts every buffer
\* delivered before the take except one still waiting for the lock; and
\* it decodes to those buffers, whole and in order, where the header is
\* the stream's.
C19_WholeBuffersOnly ==
    (taken # None /\ Hw.callback = "write_wav_data") =>
        LET n == Unwrap(taken).n
            k == IF Unwrap(taken).idle THEN n ELSE n - 1
            whole == Flatten(SubSeq(delivered, 1, k))
            f == Unwrap(file)
        IN  /\ k >= 0
            /\ Len(f.data) = Unwrap(taken).bytes
            /\ Len(f.data) = (f.spec.bits_per_sample \div 8) * Len(whole)
            /\ header_config(Unwrap(stream)) = stream_config(Unwrap(stream))
                  => DecodeSamples(f.spec, f.data) = whole

\* C19 witness: the writer was taken and finalized while the second buffer
\* was waiting for the lock: the file holds the first buffer only
C19_Witness ==
    /\ taken # None
    /\ ~Unwrap(taken).idle
    /\ Unwrap(taken).n = 2
    /\ Len(delivered[1]) = 2
    /\ Unwrap(file).closed

\* C20: while the process runs, the lock is only ever held by a live
\* thread inside its critical section, which can take its next step
\* towards the release; a thread that waits for a lock it cannot get waits
\* for such a holder.
C20_NoDeadlock ==
    Running =>
        /\ lock.holder \in {"free", "cb", "ctl"}
        /\ lock.holder = "cb" =>
               /\ cb.pc \in {"check", "write", "return"}
               /\ ENABLED (CbCheck \/ CbWrite \/ CbReturn)
        /\ lock.holder = "ctl" =>
               /\ pc \in {"take", "finalize", "unlock"}
               /\ ENABLED (Take \/ Finalize \/ Unlock)
        /\ (cb.pc = "lock" /\ ~CanLock(lock)) => lock.holder = "ctl"
        /\ (pc = "lock" /\ ~CanLock(lock)) => lock.holder = "cb"

\* C20 witness: the callback has panicked while it held the lock, and the
\* control thread, arriving at the lock, finds it free
C20_Witness ==
    /\ Running
    /\ cb.pc = "dead" /\ lock.poisoned
    /\ pc = "lock"
    /\ CanLock(lock)

=============================================================================
